---- MODULE Spec2Model ----
(***************************************************************************)
(* UK Garage Finder (streamlit_app.py): the GarageSearchEngine (catalog   *)
(* load, TF-IDF index, the four search strategies) and the Streamlit       *)
(* main() script that drives it (load, search, cards, map, chart).         *)
(*                                                                         *)
(* Text is a sequence of one-character strings.  Real-valued quantities    *)
(* (idf weights, normalised tf-idf entries, cosine scores, thresholds) are *)
(* fixed-point integers in thousandths.                                    *)
(***************************************************************************)
EXTENDS Integers, Sequences, FiniteSets, TLC

VARIABLES
    csv,            \* the data source: [exists, columns, rows]
    pc,             \* position of the running script / engine
    df,             \* GarageSearchEngine.df (rows with derived columns)
    tfidf,          \* GarageSearchEngine.tfidf: fitted vocabulary -> idf
    tfidf_matrix,   \* GarageSearchEngine.tfidf_matrix: one normalised row per record
    error,          \* the exception that ended construction, a search or the script
    query,          \* argument of the search in progress / last search
    search_type,    \* strategy tag of that search
    threshold,      \* threshold of that search (thousandths)
    results,        \* the result frame returned by the search
    cards,          \* result cards rendered so far
    map_shown,      \* folium_static was called
    markers,        \* result positions that received a marker
    geo_i,          \* position of create_map's loop
    chart_shown     \* st.plotly_chart was called

vars == <<csv, pc, df, tfidf, tfidf_matrix, error, query, search_type,
          threshold, results, cards, map_shown, markers, geo_i, chart_shown>>

-----------------------------------------------------------------------------
(* Bounds *)

MaxRecords == 2

-----------------------------------------------------------------------------
(* Characters and strings *)

LowerLetters == <<"a", "b", "c", "d", "e", "f", "g", "h", "i", "j", "k", "l", "m",
                  "n", "o", "p", "q", "r", "s", "t", "u", "v", "w", "x", "y", "z">>

UpperLetters == <<"A", "B", "C", "D", "E", "F", "G", "H", "I", "J", "K", "L", "M",
                  "N", "O", "P", "Q", "R", "S", "T", "U", "V", "W", "X", "Y", "Z">>

Range(s) == {s[i] : i \in DOMAIN s}

Digits == {"0", "1", "2", "3", "4", "5", "6", "7", "8", "9"}

Letters == Range(LowerLetters) \cup Range(UpperLetters)

\* The characters the model's texts are written in.  "." and "(" are the
\* characters with a meaning in a regular expression.
Alphabet == Letters \cup Digits \cup {" ", ".", "("}

\* str.lower() / str.upper(), one character
LowerOf == [c \in Alphabet |->
              IF c \in Range(UpperLetters)
              THEN LowerLetters[CHOOSE i \in DOMAIN UpperLetters : UpperLetters[i] = c]
              ELSE c]

UpperOf == [c \in Alphabet |->
              IF c \in Range(LowerLetters)
              THEN UpperLetters[CHOOSE i \in DOMAIN LowerLetters : LowerLetters[i] = c]
              ELSE c]

lower(s) == [i \in 1..Len(s) |-> LowerOf[s[i]]]

upper(s) == [i \in 1..Len(s) |-> UpperOf[s[i]]]

\* \w of the token pattern and of re
IsWordChar(c) == c \in Letters \cup Digits

IsUpperLetter(c) == c \in Range(UpperLetters)

IsDigit(c) == c \in Digits

-----------------------------------------------------------------------------
(* TfidfVectorizer(ngram_range=(1, 2), stop_words='english')              *)

\* The entries of the 'english' stop-word list that the model's texts can
\* produce as tokens.
StopWords == { <<"t", "h", "e">>, <<"o", "f">>, <<"a", "n", "d">>, <<"c", "o">>,
               <<"i", "n">>, <<"o", "n">>, <<"a", "t">>, <<"t", "o">>,
               <<"f", "o", "r">>, <<"b", "y">> }

\* A run of word characters is a token when it has two or more characters
\* (token_pattern \b\w\w+\b).
Flush(cur) == IF Len(cur) >= 2 THEN <<cur>> ELSE <<>>

RECURSIVE TokensFrom(_, _, _)
TokensFrom(s, i, cur) ==
    IF i > Len(s) THEN Flush(cur)
    ELSE IF IsWordChar(s[i]) THEN TokensFrom(s, i + 1, Append(cur, s[i]))
    ELSE Flush(cur) \o TokensFrom(s, i + 1, <<>>)

Tokenize(s) == TokensFrom(s, 1, <<>>)

RemoveStopWords(toks) == SelectSeq(toks, LAMBDA t : t \notin StopWords)

\* Unigrams, then the bigrams of adjacent remaining tokens joined by a space.
WordNgrams(toks) ==
    toks \o [i \in 1..(IF Len(toks) >= 2 THEN Len(toks) - 1 ELSE 0) |->
                toks[i] \o <<" ">> \o toks[i + 1]]

\* build_analyzer(): lowercase, tokenize, drop stop words, n-grams
Analyze(text) == WordNgrams(RemoveStopWords(Tokenize(lower(text))))

Count(t, terms) == Cardinality({i \in DOMAIN terms : terms[i] = t})

\* round(1000 * ln k), k = 1..8
Ln1000 == <<0, 693, 1099, 1386, 1609, 1792, 1946, 2079>>

\* smooth idf: ln((1 + n) / (1 + df)) + 1, in thousandths
Idf1000(n, docfreq) == Ln1000[n + 1] - Ln1000[docfreq + 1] + 1000

\* fit(): the vocabulary of the corpus with each term's idf
Fit(texts) ==
    LET docs  == [i \in DOMAIN texts |-> Range(Analyze(texts[i]))]
        vocab == UNION {docs[i] : i \in DOMAIN docs}
    IN  [t \in vocab |->
           Idf1000(Len(texts), Cardinality({i \in DOMAIN docs : t \in docs[i]}))]

RECURSIVE SumOver(_, _)
SumOver(f, S) ==
    IF S = {} THEN 0
    ELSE LET x == CHOOSE y \in S : TRUE IN f[x] + SumOver(f, S \ {x})

RECURSIVE IsqrtIter(_, _, _)
IsqrtIter(x, lo, hi) ==
    IF lo >= hi THEN lo
    ELSE LET mid == (lo + hi + 1) \div 2
         IN  IF mid * mid <= x THEN IsqrtIter(x, mid, hi)
             ELSE IsqrtIter(x, lo, mid - 1)

\* floor of the square root
Isqrt(x) == IsqrtIter(x, 0, 46340)

\* Euclidean norm of a sparse vector (term -> weight)
Norm(v) == Isqrt(SumOver([t \in DOMAIN v |-> v[t] * v[t]], DOMAIN v))

\* transform(): tf * idf over the fitted vocabulary, L2-normalised
\* (entries in thousandths); a text with no known term is the empty vector.
Transform(idf, text) ==
    LET terms   == Analyze(text)
        present == {t \in DOMAIN idf : t \in Range(terms)}
        raw     == [t \in present |-> Count(t, terms) * idf[t]]
        n       == Norm(raw)
    IN  [t \in present |-> (raw[t] * 1000) \div n]

Dot(u, v) ==
    LET common == DOMAIN u \cap DOMAIN v
    IN  SumOver([t \in common |-> u[t] * v[t]], common)

\* cosine_similarity of two rows, in thousandths; a zero vector scores 0.
CosineSimilarity(u, v) ==
    LET nu == Norm(u)
        nv == Norm(v)
    IN  IF nu = 0 \/ nv = 0 THEN 0 ELSE (Dot(u, v) * 1000) \div (nu * nv)

-----------------------------------------------------------------------------
(* Regular expressions as the code uses them *)

\* re.compile of a pattern written in Alphabet; the only characters of it
\* with a regex meaning are "." and "(".  The alphabet has no ")", so a "("
\* opens a group that is never closed: re.error.
RegexCompiles(pat) == "(" \notin Range(pat)

\* re.search(pat, text) for a pattern that compiles: each "." matches any
\* character, every other character matches itself.
RegexSearch(pat, text) ==
    \E start \in 1..(Len(text) + 1) :
        /\ start + Len(pat) - 1 <= Len(text)
        /\ \A k \in 1..Len(pat) :
              pat[k] = "." \/ pat[k] = text[start + k - 1]

\* The match of ([A-Z]{1,2}\d{1,2}) at position i of s, or <<>>.  Greedy: two
\* letters before one, two digits before one.
AreaAt(s, i) ==
    LET L(j) == j <= Len(s) /\ IsUpperLetter(s[j])
        D(j) == j <= Len(s) /\ IsDigit(s[j])
    IN  IF L(i) /\ L(i + 1) /\ D(i + 2)
        THEN SubSeq(s, i, IF D(i + 3) THEN i + 3 ELSE i + 2)
        ELSE IF L(i) /\ D(i + 1)
        THEN SubSeq(s, i, IF D(i + 2) THEN i + 2 ELSE i + 1)
        ELSE <<>>

\* Start of the leftmost match of ([A-Z]{1,2}\d{1,2}) in s, or 0.
AreaStart(s) ==
    IF \E i \in 1..Len(s) : AreaAt(s, i) # <<>>
    THEN CHOOSE i \in 1..Len(s) :
            /\ AreaAt(s, i) # <<>>
            /\ \A j \in 1..(i - 1) : AreaAt(s, j) = <<>>
    ELSE 0

\* re.search(r'([A-Z]{1,2}\d{1,2})', s).group(1), or <<>> when there is no match
AreaSearch(s) == IF AreaStart(s) = 0 THEN <<>> ELSE AreaAt(s, AreaStart(s))

\* Series.str.extract(r'([A-Z]{1,2}\d{1,2})', flags=re.IGNORECASE): the matched
\* text in its own case, or <<>> (missing)
ExtractArea(s) ==
    LET i == AreaStart(upper(s))
    IN  IF i = 0 THEN <<>> ELSE SubSeq(s, i, i + Len(AreaAt(upper(s), i)) - 1)

-----------------------------------------------------------------------------
(* The data source *)

\* The columns the program reads from the CSV file
RequiredColumns == {"Garage Name", "Location", "City", "Postcode",
                    "Phone", "Email", "Website"}

AcmeMotors ==
    [c \in RequiredColumns |->
        CASE c = "Garage Name" -> <<"A", "c", "m", "e", " ", "M", "o", "t", "o", "r", "s">>
          [] c = "Location"    -> <<"H", "i", "g", "h", " ", "S", "t">>
          [] c = "City"        -> <<"L", "o", "n", "d", "o", "n">>
          [] c = "Postcode"    -> <<"S", "W", "1", "A", " ", "1", "A", "A">>
          [] c = "Phone"       -> <<"0", "2", "0">>
          [] c = "Email"       -> <<"a", ".", "m">>
          [] c = "Website"     -> <<"N", "o", " ", "W", "e", "b", "s", "i", "t", "e">>]

BestOfCars ==
    [c \in RequiredColumns |->
        CASE c = "Garage Name" -> <<"B", "e", "s", "t", " ", "o", "f", " ", "C", "a", "r", "s">>
          [] c = "Location"    -> <<"L", "o", "w", " ", "R", "d">>
          [] c = "City"        -> <<"L", "o", "n", "d", "o", "n">>
          [] c = "Postcode"    -> <<"S", "E", "1", " ", "2", "B", "B">>
          [] c = "Phone"       -> <<"0", "2", "1">>
          [] c = "Email"       -> <<"b", ".", "c">>
          [] c = "Website"     -> <<"b", "c", ".", "u", "k">>]

AbcGarage ==
    [c \in RequiredColumns |->
        CASE c = "Garage Name" -> <<"A", "B", "C", " ", "G", "a", "r", "a", "g", "e">>
          [] c = "Location"    -> <<"C", "a", "r", " ", "L", "n">>
          [] c = "City"        -> <<"L", "e", "e", "d", "s">>
          [] c = "Postcode"    -> <<"s", "w", "1", " ", "9", "z", "z">>
          [] c = "Phone"       -> <<"0", "1", "1", "3">>
          [] c = "Email"       -> <<"a", "b", "c">>
          [] c = "Website"     -> <<"N", "o", " ", "W", "e", "b", "s", "i", "t", "e">>]

\* A second row with the name and postcode of AcmeMotors
AcmeMotorsPark ==
    [c \in RequiredColumns |->
        CASE c = "Garage Name" -> <<"A", "c", "m", "e", " ", "M", "o", "t", "o", "r", "s">>
          [] c = "Location"    -> <<"P", "a", "r", "k", " ", "R", "d">>
          [] c = "City"        -> <<"L", "o", "n", "d", "o", "n">>
          [] c = "Postcode"    -> <<"S", "W", "1", "A", " ", "1", "A", "A">>
          [] c = "Phone"       -> <<"0", "2", "2">>
          [] c = "Email"       -> <<"a", ".", "p">>
          [] c = "Website"     -> <<"a", "m", ".", "u", "k">>]

RecordPool == {AcmeMotors, BestOfCars, AbcGarage, AcmeMotorsPark}

\* Catalogs: 1..MaxRecords rows of the pool, in any order, repeats allowed
Catalogs == UNION {[1..n -> RecordPool] : n \in 1..MaxRecords}

\* A file has all the required columns or lacks one of them
ColumnChoices == {RequiredColumns} \cup {RequiredColumns \ {c} : c \in RequiredColumns}

Restrict(row, cols) == [c \in cols |-> row[c]]

MissingFile == [exists |-> FALSE, columns |-> {}, rows |-> <<>>]

CsvFiles == {[exists |-> TRUE, columns |-> cols,
              rows |-> [i \in DOMAIN cat |-> Restrict(cat[i], cols)]] :
                 cols \in ColumnChoices, cat \in Catalogs}

\* Query strings: '', ' ', 'car', 'acme', 'Acme Motors', 'a.c', '(', 'sw1', 'SE1 2BB', 'best cars', 'xsw19', 'e1', 'london', 'the garage'
Queries == { <<>>,
             <<"c", "a", "r">>,
             <<" ">>,
             <<"a", "c", "m", "e">>,
             <<"A", "c", "m", "e", " ", "M", "o", "t", "o", "r", "s">>,
             <<"a", ".", "c">>,
             <<"(">>,
             <<"s", "w", "1">>,
             <<"S", "E", "1", " ", "2", "B", "B">>,
             <<"b", "e", "s", "t", " ", "c", "a", "r", "s">>,
             <<"x", "s", "w", "1", "9">>,
             <<"e", "1">>,
             <<"l", "o", "n", "d", "o", "n">>,
             <<"t", "h", "e", " ", "g", "a", "r", "a", "g", "e">> }

\* Thresholds a caller passes, in thousandths (the slider runs from 0.0 to 1.0)
Thresholds == {0, 100, 350, 1000}

\* threshold: float = 0.1
DefaultThreshold == 100

SearchTypes == {"name", "location", "nearby", "all"}

-----------------------------------------------------------------------------
(* GarageSearchEngine *)

\* similarity_score of a row that has none (NaN after concat)
NaN == 0 - 1

\* The columns prepare_data reads
IndexedColumns == {"Garage Name", "Location", "City", "Postcode"}

\* f"{x['Garage Name']} {x['Location']} {x['City']} {x['Postcode']}" lowercased
SearchText(row) ==
    lower(row["Garage Name"] \o <<" ">> \o row["Location"] \o <<" ">>
          \o row["City"] \o <<" ">> \o row["Postcode"])

\* The exception __init__ raises for a source, or "none"
LoadError(src) ==
    IF ~src.exists THEN "FileNotFoundError"
    ELSE IF ~(IndexedColumns \subseteq src.columns) THEN "KeyError"
    ELSE IF DOMAIN Fit([i \in DOMAIN src.rows |-> SearchText(src.rows[i])]) = {}
         THEN "ValueError"
    ELSE "none"

\* self.df after prepare_data: the rows read, with search_text and postcode_area
PrepareData(rows) ==
    [i \in DOMAIN rows |->
        rows[i] @@ ("search_text" :> SearchText(rows[i]))
                @@ ("postcode_area" :> ExtractArea(rows[i]["Postcode"]))]

\* self.tfidf after fit_transform
FitIndex(frame) == Fit([i \in DOMAIN frame |-> frame[i]["search_text"]])

\* self.tfidf_matrix after fit_transform
FitMatrix(frame) ==
    [i \in DOMAIN frame |-> Transform(FitIndex(frame), frame[i]["search_text"])]

\* cosine_similarity(self.tfidf.transform([text.lower()]), self.tfidf_matrix)[0]
SimilarityScores(text) ==
    LET query_vector == Transform(tfidf, lower(text))
    IN  [i \in DOMAIN df |-> CosineSimilarity(query_vector, tfidf_matrix[i])]

\* results_df = self.df.copy(); results_df['similarity_score'] = scores.
\* A frame is a sequence of [index, row]: the index label and the row's cells.
ScoredCopy(scores) ==
    [i \in DOMAIN df |->
        [index |-> i, row |-> df[i] @@ ("similarity_score" :> scores[i])]]

\* Mutant: no copy, the score column is written to self.df
SelfDfScoredInPlace(scores) ==
    [i \in DOMAIN df |-> ("similarity_score" :> scores[i]) @@ df[i]]

\* self.df after lines 57-58 / 70-71: the score column is written to the copy
SelfDfAfterScoring(scores) == df

\* frame[mask]: the rows at the positions in keep, in frame order
RECURSIVE FilterFrom(_, _, _)
FilterFrom(frame, keep, i) ==
    IF i > Len(frame) THEN <<>>
    ELSE (IF i \in keep THEN <<frame[i]>> ELSE <<>>) \o FilterFrom(frame, keep, i + 1)

Filter(frame, keep) == FilterFrom(frame, keep, 1)

\* sort_values('similarity_score', ascending=False) with the default
\* (unstable) sort: every ordering by non-increasing score; rows with equal
\* scores may come out in any order.
RECURSIVE SortOrders(_)
SortOrders(S) ==
    IF S = {} THEN {<<>>}
    ELSE UNION { {<<r>> \o t : t \in SortOrders(S \ {r})} :
                 r \in {x \in S : \A y \in S :
                          x.row["similarity_score"] >= y.row["similarity_score"]} }

\* Mutant: ascending order
RECURSIVE SortOrdersAscending(_)
SortOrdersAscending(S) ==
    IF S = {} THEN {<<>>}
    ELSE UNION { {<<r>> \o t : t \in SortOrdersAscending(S \ {r})} :
                 r \in {x \in S : \A y \in S :
                          x.row["similarity_score"] <= y.row["similarity_score"]} }

SortValuesAscending(frame) == SortOrdersAscending(Range(frame))

SortValues(frame) == SortOrders(Range(frame))

\* Mutant: an empty pattern matches nothing
StrContainsNonEmpty(text, pat) == Len(pat) > 0 /\ RegexSearch(pat, lower(text))

\* Series.str.lower().str.contains(pat, na=False): pat is a regular expression
StrContains(text, pat) == RegexSearch(pat, lower(text))

\* Mutant: the score comparison turned round
SearchByNameBelowThreshold(name, thr) ==
    LET scores     == SimilarityScores(name)
        results_df == ScoredCopy(scores)
        keep       == {i \in DOMAIN df :
                          \/ scores[i] <= thr
                          \/ StrContains(df[i]["Garage Name"], lower(name))}
    IN  IF ~RegexCompiles(lower(name)) THEN {}
        ELSE SortValues(Filter(results_df, keep))

\* _search_by_name: the frames the call can return (the set is empty when the
\* call raises)
SearchByName(name, thr) ==
    LET scores     == SimilarityScores(name)
        results_df == ScoredCopy(scores)
        keep       == {i \in DOMAIN df :
                          \/ scores[i] >= thr
                          \/ StrContains(df[i]["Garage Name"], lower(name))}
    IN  IF ~RegexCompiles(lower(name)) THEN {}
        ELSE SortValues(Filter(results_df, keep))

\* Mutant: by-location keeps every score
SearchByLocationAnyScore(location) ==
    LET scores     == SimilarityScores(location)
        results_df == ScoredCopy(scores)
        keep       == {i \in DOMAIN df : scores[i] >= 0}
    IN  SortValues(Filter(results_df, keep))

\* _search_by_location
SearchByLocation(location) ==
    LET scores     == SimilarityScores(location)
        results_df == ScoredCopy(scores)
        keep       == {i \in DOMAIN df : scores[i] >= DefaultThreshold}
    IN  SortValues(Filter(results_df, keep))

\* Mutant: the pattern without its "^" anchor
ContainsAnywhereNoCase(text, prefix) ==
    \E start \in 1..(Len(text) + 1) :
        /\ start + Len(prefix) - 1 <= Len(text)
        /\ upper(SubSeq(text, start, start + Len(prefix) - 1)) = upper(prefix)

\* Series.str.contains(f"^{prefix}", case=False, na=False) for one cell; the
\* prefix is made of letters and digits
ContainsAtStartNoCase(text, prefix) ==
    /\ Len(text) >= Len(prefix)
    /\ upper(SubSeq(text, 1, Len(prefix))) = upper(prefix)

\* area_match.group(1)[:2]
AreaPrefix(area) == SubSeq(area, 1, IF Len(area) < 2 THEN Len(area) ELSE 2)

\* _search_nearby: rows of self.df in catalog order; the empty frame when the
\* query holds no area
SearchNearby(postcode) ==
    LET area_match  == AreaSearch(upper(postcode))
        area_prefix == AreaPrefix(area_match)
        keep        == {i \in DOMAIN df :
                           ContainsAtStartNoCase(df[i]["Postcode"], area_prefix)}
        frame       == [i \in DOMAIN df |-> [index |-> i, row |-> df[i]]]
    IN  IF area_match = <<>> THEN <<>> ELSE Filter(frame, keep)

\* pd.concat gives every row the union of the columns: a row without a
\* similarity_score gets NaN
WithScoreColumn(frame) ==
    [i \in DOMAIN frame |->
        IF "similarity_score" \in DOMAIN frame[i].row THEN frame[i]
        ELSE [index |-> frame[i].index,
              row   |-> frame[i].row @@ ("similarity_score" :> NaN)]]

\* pd.concat([a, b, c]): a and b have the score column even when they are empty
Concat(a, b, c) == WithScoreColumn(a \o b \o c)

\* The identity key of drop_duplicates(subset=['Garage Name', 'Postcode'])
Key(r) == <<r.row["Garage Name"], r.row["Postcode"]>>

\* Mutant: drop_duplicates() without subset, comparing whole rows
DropDuplicatesAllColumns(frame) ==
    Filter(frame, {i \in DOMAIN frame : \A j \in 1..(i - 1) : frame[j].row # frame[i].row})

\* drop_duplicates(subset=...): the first row of every key is kept
DropDuplicates(frame) ==
    Filter(frame, {i \in DOMAIN frame :
                     \A j \in 1..(i - 1) : Key(frame[j]) # Key(frame[i])})

\* _comprehensive_search: the frames the call can return
ComprehensiveSearch(q) ==
    { DropDuplicates(Concat(name_results, location_results, SearchNearby(q))) :
        name_results \in SearchByName(q, DefaultThreshold),
        location_results \in SearchByLocation(q) }

\* search(): dispatch on the strategy tag; any other tag is the comprehensive search
SearchOutcomes(q, type, thr) ==
    CASE type = "name"     -> SearchByName(q, thr)
      [] type = "location" -> SearchByLocation(q)
      [] type = "nearby"   -> {SearchNearby(q)}
      [] OTHER             -> ComprehensiveSearch(q)

\* A call of search() raises when str.contains cannot compile the query
SearchRaises(q, type) == type \notin {"location", "nearby"} /\ ~RegexCompiles(lower(q))

\* self.df after a call of search(): every strategy but find-nearby scores a
\* copy of the frame (before by-name's str.contains can raise)
SelfDfAfterSearch(q, type) ==
    IF type = "nearby" THEN df ELSE SelfDfAfterScoring(SimilarityScores(q))

-----------------------------------------------------------------------------
(* The engine as its callers drive it: construct, search, take the result *)

NoSearch ==
    /\ query = <<>>
    /\ search_type = "none"
    /\ threshold = DefaultThreshold
    /\ results = <<>>

NoDisplay ==
    /\ cards = 0
    /\ map_shown = FALSE
    /\ markers = {}
    /\ geo_i = 0
    /\ chart_shown = FALSE

Init ==
    /\ csv \in CsvFiles \cup {MissingFile}
    /\ pc = "start"
    /\ df = <<>>
    /\ tfidf = <<>>
    /\ tfidf_matrix = <<>>
    /\ error = "none"
    /\ NoSearch
    /\ NoDisplay

\* GarageSearchEngine(csv_path): read_csv, then prepare_data
Construct(okpc, failpc) ==
    /\ pc = "start"
    /\ IF LoadError(csv) # "none"
       THEN /\ pc' = failpc
            /\ error' = LoadError(csv)
            /\ UNCHANGED <<df, tfidf, tfidf_matrix>>
       ELSE /\ pc' = okpc
            /\ df' = PrepareData(csv.rows)
            /\ tfidf' = FitIndex(PrepareData(csv.rows))
            /\ tfidf_matrix' = FitMatrix(PrepareData(csv.rows))
            /\ UNCHANGED error

\* search_engine.search(q, type, thr)
Call(q, type, thr, okpc, failpc) ==
    /\ query' = q
    /\ search_type' = type
    /\ threshold' = thr
    /\ df' = SelfDfAfterSearch(q, type)
    /\ IF SearchRaises(q, type)
       THEN /\ pc' = failpc
            /\ error' = "re.error"
            /\ results' = <<>>
       ELSE /\ pc' = okpc
            /\ results' \in SearchOutcomes(q, type, thr)
            /\ UNCHANGED error

Load ==
    /\ Construct("ready", "failed")
    /\ UNCHANGED <<csv, query, search_type, threshold, results, cards, map_shown,
                   markers, geo_i, chart_shown>>

Search ==
    /\ pc = "ready"
    /\ \E q \in Queries, type \in SearchTypes, thr \in Thresholds :
          /\ type # "name" => thr = DefaultThreshold
          /\ Call(q, type, thr, "returned", "raised")
    /\ UNCHANGED <<csv, tfidf, tfidf_matrix, cards, map_shown, markers, geo_i,
                   chart_shown>>

\* The caller is done with the result (or the exception) and may search again
Return ==
    /\ pc \in {"returned", "raised"}
    /\ pc' = "ready"
    /\ error' = "none"
    /\ query' = <<>>
    /\ search_type' = "none"
    /\ threshold' = DefaultThreshold
    /\ results' = <<>>
    /\ UNCHANGED <<csv, df, tfidf, tfidf_matrix, cards, map_shown, markers, geo_i,
                   chart_shown>>

Next == Load \/ Search \/ Return

Spec == Init /\ [][Next]_vars

-----------------------------------------------------------------------------
(* main(): one run of the Streamlit script *)

\* search_type_map
SearchTypeMap == [label \in {"Comprehensive", "By Name", "By Location", "Find Nearby"} |->
                    CASE label = "Comprehensive" -> "all"
                      [] label = "By Name"       -> "name"
                      [] label = "By Location"   -> "location"
                      [] label = "Find Nearby"   -> "nearby"]

\* results[:10]
MapLimit == 10

\* What one call of geolocator.geocode can do: return a location, return
\* None, raise GeocoderTimedOut, raise another geopy exception
GeocodeOutcomes == {"found", "not_found", "timed_out", "service_error"}

\* get_coordinates: coordinates, None, or the exception it lets through
GetCoordinates(outcome) ==
    CASE outcome = "found"     -> "coords"
      [] outcome = "not_found" -> "None"
      [] outcome = "timed_out" -> "None"
      [] OTHER                 -> "raise"

\* The columns a result card reads from a row
CardColumns == {"Garage Name", "Location", "City", "Postcode", "Phone", "Email", "Website"}

MapRows == IF Len(results) < MapLimit THEN Len(results) ELSE MapLimit

\* try: search_engine = GarageSearchEngine(...) except: st.error(...); return
MainLoad ==
    /\ Construct("loaded", "stopped")
    /\ UNCHANGED <<csv, query, search_type, threshold, results, cards, map_shown,
                   markers, geo_i, chart_shown>>

\* The sidebar's values, then: if search_button and search_query: search
MainSearch ==
    /\ pc = "loaded"
    /\ \E label \in DOMAIN SearchTypeMap, q \in Queries, slider \in Thresholds,
          search_button \in BOOLEAN :
          IF search_button /\ q # <<>>
          THEN /\ label # "By Name" => slider = DefaultThreshold  \* no slider is shown
               /\ Call(q, SearchTypeMap[label],
                       IF label = "By Name" THEN slider ELSE DefaultThreshold,
                       "searched", "crashed")
          ELSE /\ pc' = "done"
               /\ UNCHANGED <<df, error, query, search_type, threshold, results>>
    /\ UNCHANGED <<csv, tfidf, tfidf_matrix, cards, map_shown, markers, geo_i,
                   chart_shown>>

\* if len(results) > 0: one card per row, else st.warning
RenderCards ==
    /\ pc = "searched"
    /\ IF Len(results) = 0
       THEN pc' = "done" /\ UNCHANGED <<cards, error>>
       ELSE IF \E i \in DOMAIN results : ~(CardColumns \subseteq DOMAIN results[i].row)
       THEN pc' = "crashed" /\ error' = "KeyError" /\ UNCHANGED cards
       ELSE pc' = "map" /\ cards' = Len(results) /\ UNCHANGED error
    /\ UNCHANGED <<csv, df, tfidf, tfidf_matrix, query, search_type, threshold,
                   results, map_shown, markers, geo_i, chart_shown>>

\* coords = get_coordinates(f"{results.iloc[0]['City']}, UK"); if coords: create_map
MapCentre ==
    /\ pc = "map"
    /\ \E outcome \in GeocodeOutcomes :
          CASE GetCoordinates(outcome) = "coords" ->
                  pc' = "markers" /\ geo_i' = 1 /\ UNCHANGED error
            [] GetCoordinates(outcome) = "None" ->
                  pc' = "chart" /\ UNCHANGED <<geo_i, error>>
            [] OTHER ->
                  pc' = "crashed" /\ error' = "GeocoderServiceError" /\ UNCHANGED geo_i
    /\ UNCHANGED <<csv, df, tfidf, tfidf_matrix, query, search_type, threshold,
                   results, cards, map_shown, markers, chart_shown>>

\* create_map, one turn of its loop over results[:10]
MapMarker ==
    /\ pc = "markers"
    /\ geo_i <= MapRows
    /\ \E outcome \in GeocodeOutcomes :
          CASE GetCoordinates(outcome) = "coords" ->
                  /\ markers' = markers \cup {geo_i}
                  /\ geo_i' = geo_i + 1
                  /\ UNCHANGED <<pc, error>>
            [] GetCoordinates(outcome) = "None" ->
                  /\ geo_i' = geo_i + 1
                  /\ UNCHANGED <<pc, error, markers>>
            [] OTHER ->
                  /\ pc' = "crashed"
                  /\ error' = "GeocoderServiceError"
                  /\ UNCHANGED <<geo_i, markers>>
    /\ UNCHANGED <<csv, df, tfidf, tfidf_matrix, query, search_type, threshold,
                   results, cards, map_shown, chart_shown>>

\* return m; folium_static(m)
ShowMap ==
    /\ pc = "markers"
    /\ geo_i > MapRows
    /\ map_shown' = TRUE
    /\ pc' = "chart"
    /\ UNCHANGED <<csv, df, tfidf, tfidf_matrix, error, query, search_type, threshold,
                   results, cards, markers, geo_i, chart_shown>>

\* city_dist = results['City'].value_counts(); st.plotly_chart(fig)
ShowChart ==
    /\ pc = "chart"
    /\ chart_shown' = TRUE
    /\ pc' = "done"
    /\ UNCHANGED <<csv, df, tfidf, tfidf_matrix, error, query, search_type, threshold,
                   results, cards, map_shown, markers, geo_i>>

\* The next interaction runs the script again from the top
Rerun ==
    /\ pc \in {"done", "crashed", "stopped"}
    /\ pc' = "start"
    /\ df' = <<>>
    /\ tfidf' = <<>>
    /\ tfidf_matrix' = <<>>
    /\ error' = "none"
    /\ query' = <<>>
    /\ search_type' = "none"
    /\ threshold' = DefaultThreshold
    /\ results' = <<>>
    /\ cards' = 0
    /\ map_shown' = FALSE
    /\ markers' = {}
    /\ geo_i' = 0
    /\ chart_shown' = FALSE
    /\ UNCHANGED csv

NextApp == MainLoad \/ MainSearch \/ RenderCards \/ MapCentre \/ MapMarker
           \/ ShowMap \/ ShowChart \/ Rerun

SpecApp == Init /\ [][NextApp]_vars

-----------------------------------------------------------------------------
(* Vocabulary of the properties *)

\* The catalog positions a frame holds
Indices(frame) == {frame[i].index : i \in DOMAIN frame}

\* q occurs in text as a literal substring, letter case ignored
LiteralSubstringNoCase(q, text) ==
    \E start \in 1..(Len(text) + 1) :
        /\ start + Len(q) - 1 <= Len(text)
        /\ \A k \in 1..Len(q) : LowerOf[q[k]] = LowerOf[text[start + k - 1]]

\* A postcode area (1-2 letters then 1-2 digits, either case) starts at i of q
AreaStartsAt(q, i) ==
    LET IsLetterAt(j) == j <= Len(q) /\ q[j] \in Letters
        IsDigitAt(j)  == j <= Len(q) /\ q[j] \in Digits
    IN  \E nl \in 1..2 :
            /\ \A j \in i..(i + nl - 1) : IsLetterAt(j)
            /\ IsDigitAt(i + nl)

HasArea(q) == \E i \in 1..Len(q) : AreaStartsAt(q, i)

\* The first two characters of the first area of q
FirstAreaPrefix(q) ==
    LET i == CHOOSE k \in 1..Len(q) :
                AreaStartsAt(q, k) /\ \A j \in 1..(k - 1) : ~AreaStartsAt(q, j)
    IN  <<q[i], q[i + 1]>>

StartsWithNoCase(text, prefix) ==
    /\ Len(text) >= Len(prefix)
    /\ \A k \in 1..Len(prefix) : LowerOf[text[k]] = LowerOf[prefix[k]]

-----------------------------------------------------------------------------
(* C1 *)

\* C1: a by-name search never raises, and returns exactly the records whose
\* score is >= the threshold or whose name contains the query as a
\* case-insensitive literal substring.
C1_ByNameExactLiteral ==
    (pc \in {"returned", "raised"} /\ search_type = "name"
        /\ csv.columns = RequiredColumns) =>
        /\ pc = "returned"
        /\ Indices(results) =
              {i \in DOMAIN df :
                  \/ SimilarityScores(query)[i] >= threshold
                  \/ LiteralSubstringNoCase(query, df[i]["Garage Name"])}

-----------------------------------------------------------------------------
(* C2 *)

\* C2: find-nearby never raises; it returns the empty frame when the query
\* holds no postcode area, and otherwise exactly the catalog records (each
\* once, in catalog order) whose postcode starts, case-insensitively, with the
\* first two characters of the first area in the query.
C2_NearbyExact ==
    /\ search_type = "nearby" => pc # "raised"
    /\ (pc = "returned" /\ search_type = "nearby") =>
          IF ~HasArea(query) THEN results = <<>>
          ELSE /\ Indices(results) =
                     {i \in DOMAIN df :
                         StartsWithNoCase(df[i]["Postcode"], FirstAreaPrefix(query))}
               /\ \A i, j \in DOMAIN results :
                     i < j => results[i].index < results[j].index

\* A find-nearby search whose area is found inside a longer query returned
\* some but not all records of the catalog.
C2_Witness ==
    /\ pc = "returned"
    /\ search_type = "nearby"
    /\ HasArea(query)
    /\ ~AreaStartsAt(query, 1)
    /\ Len(results) >= 1
    /\ Len(results) < Len(df)

\* And one whose query holds no area returned nothing.
C2_WitnessNoArea ==
    /\ pc = "returned"
    /\ search_type = "nearby"
    /\ query # <<>>
    /\ ~HasArea(query)
    /\ results = <<>>

-----------------------------------------------------------------------------
(* C3 *)

\* The identity key of a result row
IdentityKey(r) == <<r.row["Garage Name"], r.row["Postcode"]>>

\* C3: the result of a comprehensive search holds no two entries with the
\* same (Garage Name, Postcode) key, whatever the catalog holds.
C3_ComprehensiveKeysDistinct ==
    (pc = "returned" /\ search_type = "all") =>
        \A i, j \in DOMAIN results :
            i # j => IdentityKey(results[i]) # IdentityKey(results[j])

\* A comprehensive search over a catalog with two rows of one key, both hit
\* by by-name, by-location and find-nearby, returned one entry for them.
C3_Witness ==
    /\ pc = "returned"
    /\ search_type = "all"
    /\ Len(df) = 2
    /\ df[1]["Garage Name"] = df[2]["Garage Name"]
    /\ df[1]["Postcode"] = df[2]["Postcode"]
    /\ \A i \in DOMAIN df : SimilarityScores(query)[i] >= DefaultThreshold
    /\ Len(SearchNearby(query)) = 2
    /\ Len(results) = 1

-----------------------------------------------------------------------------
(* C4 *)

\* C4 as stated: for the empty query and a threshold above 0, by-name and
\* by-location search both return the empty result.
C4_EmptyQueryNoResults ==
    (pc = "returned" /\ search_type \in {"name", "location"}
        /\ query = <<>> /\ threshold > 0 /\ csv.columns = RequiredColumns) =>
        results = <<>>

\* C4 amended: for the empty query and a threshold above 0, by-location
\* search returns the empty result; by-name search returns every record of
\* the catalog, each with score 0 (the empty string is contained in every name).
C4_EmptyQueryAmended ==
    (pc = "returned" /\ query = <<>> /\ threshold > 0) =>
        /\ search_type = "location" => results = <<>>
        /\ search_type = "name" =>
              /\ Indices(results) = DOMAIN df
              /\ Len(results) = Len(df)
              /\ \A i \in DOMAIN results : results[i].row["similarity_score"] = 0

\* By-name search of the empty query at a threshold above 0 returned a
\* two-record catalog whole.
C4_Witness ==
    /\ pc = "returned"
    /\ search_type = "name"
    /\ query = <<>>
    /\ threshold > 0
    /\ Len(df) = 2
    /\ Len(results) = 2

-----------------------------------------------------------------------------
(* C7 *)

\* C7: the records by-name search returns at a threshold are among those it
\* returns at every lower threshold.
C7_ThresholdMonotone ==
    (pc = "returned" /\ search_type = "name") =>
        \A t1 \in Thresholds :
            t1 <= threshold =>
                \A lower_t \in SearchByName(query, t1) :
                    /\ Indices(results) \subseteq Indices(lower_t)
                    /\ Len(results) <= Len(lower_t)

\* A by-name search returned fewer records than the same query does at a
\* lower threshold.
C7_Witness ==
    /\ pc = "returned"
    /\ search_type = "name"
    /\ \E t1 \in Thresholds :
          /\ t1 < threshold
          /\ \E lower_t \in SearchByName(query, t1) : Len(results) < Len(lower_t)

-----------------------------------------------------------------------------
(* C8 *)

\* C8: once loaded, the catalog rows with their derived search text and
\* postcode area, the vocabulary with its weights and the matrix are left as
\* they are by every step, searches included; no row gains a similarity score.
C8_CatalogUnchanged ==
    [][pc # "start" =>
          /\ df' = df
          /\ tfidf' = tfidf
          /\ tfidf_matrix' = tfidf_matrix
          /\ \A i \in DOMAIN df' : "similarity_score" \notin DOMAIN df'[i]]_vars

\* A comprehensive search returned scored rows.
C8_Witness ==
    /\ pc = "returned"
    /\ search_type = "all"
    /\ Len(results) >= 2
    /\ results[1].row["similarity_score"] > 0

-----------------------------------------------------------------------------
(* C9 *)

\* C9: by-name and by-location results carry each record's computed score
\* and are in non-increasing score order, so a record by-name search includes
\* only for its name comes after every returned record of higher score.
C9_SortedByScore ==
    (pc = "returned" /\ search_type \in {"name", "location"}) =>
        /\ \A i \in DOMAIN results :
              results[i].row["similarity_score"] =
                  SimilarityScores(query)[results[i].index]
        /\ \A i, j \in DOMAIN results :
              i < j => results[i].row["similarity_score"] >=
                       results[j].row["similarity_score"]

\* A by-name search returned a record included only for its name (score
\* below the threshold) after a record of higher score that follows it in
\* the catalog.
C9_Witness ==
    /\ pc = "returned"
    /\ search_type = "name"
    /\ Len(results) = 2
    /\ results[2].row["similarity_score"] < threshold
    /\ results[1].row["similarity_score"] >= threshold
    /\ results[1].index > results[2].index

-----------------------------------------------------------------------------
(* C10 *)

KeysOf(frame) == {IdentityKey(frame[i]) : i \in DOMAIN frame}

\* The find-nearby rows (score NaN) whose key is not among by_name's keys,
\* the first row of each key
NewNearby(by_name) ==
    LET near == WithScoreColumn(SearchNearby(query))
    IN  Filter(near, {i \in DOMAIN near :
                 /\ IdentityKey(near[i]) \notin KeysOf(by_name)
                 /\ \A j \in 1..(i - 1) : IdentityKey(near[j]) # IdentityKey(near[i])})

\* The first row of each key of a frame
FirstOfEachKey(frame) ==
    Filter(frame, {i \in DOMAIN frame :
             \A j \in 1..(i - 1) : IdentityKey(frame[j]) # IdentityKey(frame[i])})

LocationWithinName ==
    \A by_location \in SearchByLocation(query) :
        \A by_name \in SearchByName(query, DefaultThreshold) :
            Indices(by_location) \subseteq Indices(by_name)

\* C10 as stated: by-location's records are among by-name's at 0.1, and the
\* comprehensive result is the by-name entries, in their order and with
\* their scores, followed by the find-nearby records of new keys.
C10_ByNameThenNearby ==
    (pc = "returned" /\ search_type = "all" /\ query # <<>>
        /\ csv.columns = RequiredColumns) =>
        /\ LocationWithinName
        /\ \E by_name \in SearchByName(query, DefaultThreshold) :
              results = by_name \o NewNearby(by_name)

\* C10 amended: by-location's records are among by-name's at 0.1, and the
\* comprehensive result is the by-name entries less those whose key an
\* earlier by-name entry has, in their order and with their scores,
\* followed by the find-nearby records of new keys.
C10_ByNameDedupedThenNearby ==
    (pc = "returned" /\ search_type = "all") =>
        /\ LocationWithinName
        /\ \E by_name \in SearchByName(query, DefaultThreshold) :
              results = FirstOfEachKey(by_name) \o NewNearby(by_name)

\* A comprehensive search with by-location hits returned a by-name entry
\* followed by a record only find-nearby found.
C10_Witness ==
    /\ pc = "returned"
    /\ search_type = "all"
    /\ \E by_location \in SearchByLocation(query) : by_location # <<>>
    /\ Len(results) = 2
    /\ results[1].row["similarity_score"] >= DefaultThreshold
    /\ results[2].row["similarity_score"] = NaN

-----------------------------------------------------------------------------
(* C5 *)

\* C5: when the source is missing or lacks a required column, construction
\* fails and the script stops: the engine is never ready, no search runs and
\* nothing is rendered.
C5_PartialSourceNeverServed ==
    (~csv.exists \/ csv.columns # RequiredColumns) =>
        /\ pc \in {"start", "stopped"}
        /\ search_type = "none"
        /\ cards = 0

-----------------------------------------------------------------------------
(* C6 *)

\* C6: no failure of a geocoding call, of whatever kind, ends the script
\* (with a complete source, so that nothing else ends it).
C6_GeocodingFailureIsolated ==
    csv.columns = RequiredColumns => error # "GeocoderServiceError"

====
